---- MODULE Spec2Model ----
(***************************************************************************)
(* Model of homework.py: the fitness-tracker calculator.                   *)
(*                                                                         *)
(* Python numbers are modelled as exact non-negative rationals num/den     *)
(* whose numerator and denominator are arbitrary-precision naturals,       *)
(* because the values of the calorie formulas do not fit a machine         *)
(* integer.  The rounding error of the IEEE-754 doubles of the program is  *)
(* abstracted away: every arithmetic operation is exact, and where the     *)
(* exact value leaves the outcome of the program open (a rounding tie in   *)
(* the formatting of a number) every outcome is possible.  Strings are     *)
(* sequences of Unicode code points.                                       *)
(*                                                                         *)
(* Spec is a run of the __main__ loop over a list of packages; SpecApi is  *)
(* one package read by read_package, followed by direct calls of the       *)
(* methods of the object and by main.                                      *)
(***************************************************************************)
EXTENDS Integers, Sequences, FiniteSets, TLC

(***************************************************************************)
(* Arbitrary-precision naturals: little-endian sequences of limbs in       *)
(* 0..9999 (base 10000), without leading zero limbs.                       *)
(***************************************************************************)
RECURSIVE NatToLimbs(_)
NatToLimbs(k) ==
  IF k = 0 THEN <<>> ELSE <<k % 10000>> \o NatToLimbs(k \div 10000)

RECURSIVE NStrip(_)
NStrip(a) ==
  IF a = <<>> THEN <<>>
  ELSE IF a[Len(a)] = 0 THEN NStrip(SubSeq(a, 1, Len(a) - 1)) ELSE a

RECURSIVE NAddC(_, _, _)
NAddC(a, b, c) ==
  IF a = <<>> /\ b = <<>> THEN (IF c = 0 THEN <<>> ELSE <<c>>)
  ELSE LET x == IF a = <<>> THEN 0 ELSE a[1]
           y == IF b = <<>> THEN 0 ELSE b[1]
           s == x + y + c
       IN <<s % 10000>> \o NAddC(IF a = <<>> THEN a ELSE Tail(a),
                                 IF b = <<>> THEN b ELSE Tail(b),
                                 s \div 10000)

NAdd(a, b) == NAddC(a, b, 0)

RECURSIVE NSubB(_, _, _)
NSubB(a, b, brw) ==
  IF a = <<>> THEN <<>>
  ELSE LET y == IF b = <<>> THEN 0 ELSE b[1]
           s == a[1] - y - brw
       IN <<IF s < 0 THEN s + 10000 ELSE s>>
            \o NSubB(Tail(a), IF b = <<>> THEN b ELSE Tail(b),
                     IF s < 0 THEN 1 ELSE 0)

\* a - b for a >= b
NSub(a, b) == NStrip(NSubB(a, b, 0))

RECURSIVE NCmpAt(_, _, _)
NCmpAt(a, b, i) ==
  IF i = 0 THEN 0
  ELSE IF a[i] < b[i] THEN -1
  ELSE IF a[i] > b[i] THEN 1
  ELSE NCmpAt(a, b, i - 1)

\* -1, 0, 1 as a < b, a = b, a > b
NCmp(a, b) ==
  IF Len(a) < Len(b) THEN -1
  ELSE IF Len(a) > Len(b) THEN 1
  ELSE NCmpAt(a, b, Len(a))

RECURSIVE NMulIntC(_, _, _)
NMulIntC(a, m, c) ==
  IF a = <<>> THEN NatToLimbs(c)
  ELSE LET s == a[1] * m + c
       IN <<s % 10000>> \o NMulIntC(Tail(a), m, s \div 10000)

\* a times a machine integer m in 0..10000
NMulInt(a, m) == IF m = 0 THEN <<>> ELSE NMulIntC(a, m, 0)

RECURSIVE NMul(_, _)
NMul(a, b) ==
  IF a = <<>> \/ b = <<>> THEN <<>>
  ELSE LET rest == NMul(a, Tail(b))
       IN NAdd(NMulInt(a, b[1]), IF rest = <<>> THEN <<>> ELSE <<0>> \o rest)

\* the largest k in lo..hi with d * k <= r (d * lo <= r), by bisection
RECURSIVE NQuotLimb(_, _, _, _)
NQuotLimb(r, d, lo, hi) ==
  IF lo = hi THEN lo
  ELSE LET mid == (lo + hi + 1) \div 2
       IN IF NCmp(NMulInt(d, mid), r) <= 0
          THEN NQuotLimb(r, d, mid, hi)
          ELSE NQuotLimb(r, d, lo, mid - 1)

\* long division: quotient and remainder of n by d (d # 0); i walks the
\* limbs of n from the most significant one
RECURSIVE NDivModAt(_, _, _, _, _)
NDivModAt(n, d, i, q, r) ==
  IF i = 0 THEN [quot |-> NStrip(q), rem |-> r]
  ELSE LET r1 == NStrip(<<n[i]>> \o r)
           k  == NQuotLimb(r1, d, 0, 9999)
       IN NDivModAt(n, d, i - 1, <<k>> \o q, NSub(r1, NMulInt(d, k)))

NDivMod(n, d) == NDivModAt(n, d, Len(n), <<>>, <<>>)

\* floor(a / m) for a machine integer m in 1..10000; i walks the limbs of a
\* from the most significant one, c is the remainder carried down
RECURSIVE NDivIntAt(_, _, _, _)
NDivIntAt(a, m, i, c) ==
  IF i = 0 THEN <<>>
  ELSE LET cur == c * 10000 + a[i]
       IN NDivIntAt(a, m, i - 1, cur % m) \o <<cur \div m>>

NDivInt(a, m) == NStrip(NDivIntAt(a, m, Len(a), 0))

\* the number of trailing decimal zeros of a # 0, counted up to 4 per limb
RECURSIVE NTrailingZeros(_)
NTrailingZeros(a) ==
  IF a[1] = 0 THEN 4 + NTrailingZeros(Tail(a))
  ELSE IF a[1] % 1000 = 0 THEN 3
  ELSE IF a[1] % 100 = 0 THEN 2
  ELSE IF a[1] % 10 = 0 THEN 1
  ELSE 0

Pow10(k) == CASE k = 0 -> 1 [] k = 1 -> 10 [] k = 2 -> 100 [] k = 3 -> 1000

\* a / 10^k, for a divisible by 10^k
NShiftRight(a, k) ==
  NDivInt(SubSeq(a, (k \div 4) + 1, Len(a)), Pow10(k % 4))

\* the decimal digits of a, least significant first
RECURSIVE NDecimals(_)
NDecimals(a) ==
  IF a = <<>> THEN <<>>
  ELSE IF Len(a) = 1
       THEN (IF a[1] < 10 THEN <<a[1]>>
             ELSE <<a[1] % 10>> \o NDecimals(<<a[1] \div 10>>))
       ELSE <<a[1] % 10, (a[1] \div 10) % 10, (a[1] \div 100) % 10,
              a[1] \div 1000>> \o NDecimals(Tail(a))

(***************************************************************************)
(* Exact non-negative rationals num/den, den # 0; common powers of ten are *)
(* cancelled, other common factors are not, so equality is REq.            *)
(***************************************************************************)
RNorm(r) ==
  IF r.num = <<>> THEN [num |-> <<>>, den |-> <<1>>]
  ELSE LET zn == NTrailingZeros(r.num)
           zd == NTrailingZeros(r.den)
           k  == IF zn < zd THEN zn ELSE zd
       IN IF k = 0 THEN r
          ELSE [num |-> NShiftRight(r.num, k), den |-> NShiftRight(r.den, k)]

Rat(n, d) == RNorm([num |-> NatToLimbs(n), den |-> NatToLimbs(d)])
Num(k) == Rat(k, 1)
RIsZero(r) == r.num = <<>>
RMul(x, y) == RNorm([num |-> NMul(x.num, y.num), den |-> NMul(x.den, y.den)])
\* x / y for y # 0
RDiv(x, y) == RNorm([num |-> NMul(x.num, y.den), den |-> NMul(x.den, y.num)])
RAdd(x, y) ==
  RNorm([num |-> NAdd(NMul(x.num, y.den), NMul(y.num, x.den)),
         den |-> NMul(x.den, y.den)])
\* -1, 0, 1 as x < y, x = y, x > y
RCmp(x, y) == NCmp(NMul(x.num, y.den), NMul(y.num, x.den))
REq(x, y) == RCmp(x, y) = 0

(***************************************************************************)
(* Strings: sequences of code points.                                      *)
(***************************************************************************)
\* 'Тип тренировки: '
MSG_TYPE ==
  <<1058, 1080, 1087, 32, 1090, 1088, 1077, 1085, 1080, 1088, 1086, 1074,
    1082, 1080, 58, 32>>
\* '; Длительность: '
MSG_DURATION ==
  <<59, 32, 1044, 1083, 1080, 1090, 1077, 1083, 1100, 1085, 1086, 1089,
    1090, 1100, 58, 32>>
\* ' ч.; Дистанция: '
MSG_DISTANCE ==
  <<32, 1095, 46, 59, 32, 1044, 1080, 1089, 1090, 1072, 1085, 1094, 1080,
    1103, 58, 32>>
\* ' км; Ср. скорость: '
MSG_SPEED ==
  <<32, 1082, 1084, 59, 32, 1057, 1088, 46, 32, 1089, 1082, 1086, 1088,
    1086, 1089, 1090, 1100, 58, 32>>
\* ' км/ч; Потрачено ккал: '
MSG_CALORIES ==
  <<32, 1082, 1084, 47, 1095, 59, 32, 1055, 1086, 1090, 1088, 1072, 1095,
    1077, 1085, 1086, 32, 1082, 1082, 1072, 1083, 58, 32>>
\* '.'
MSG_END == <<46>>

\* type(self).__name__ as code points
ClassName(cls) ==
  CASE cls = "Running" -> <<82, 117, 110, 110, 105, 110, 103>>
    [] cls = "SportsWalking" ->
         <<83, 112, 111, 114, 116, 115, 87, 97, 108, 107, 105, 110, 103>>
    [] cls = "Swimming" -> <<83, 119, 105, 109, 109, 105, 110, 103>>
    [] OTHER -> <<84, 114, 97, 105, 110, 105, 110, 103>>

RECURSIVE DigitChars(_)
\* the characters '0'..'9' (code points 48..57) of a sequence of decimal
\* digits given least significant first, written most significant first
DigitChars(a) ==
  IF a = <<>> THEN <<>>
  ELSE DigitChars(Tail(a)) \o <<48 + a[1]>>

RECURSIVE PadTo(_, _)
PadTo(a, n) == IF Len(a) >= n THEN a ELSE PadTo(a \o <<0>>, n)

\* the number of decimals of the format specification ':.3f'
PRECISION == 3

\* r * 10^prec rounded to the nearest natural.  The program rounds the
\* double that approximates r: when r * 10^prec lies exactly half way between
\* two naturals, the double lies on either side of it, so both roundings are
\* possible outcomes.
Roundings(r, prec) ==
  LET dm    == NDivMod(NMulInt(r.num, Pow10(prec)), r.den)
      twice == NCmp(NMulInt(dm.rem, 2), r.den)
  IN IF twice < 0 THEN {dm.quot}
     ELSE IF twice > 0 THEN {NAdd(dm.quot, <<1>>)}
     ELSE {dm.quot, NAdd(dm.quot, <<1>>)}

\* the integer part, '.' (code point 46) and prec digits of q / 10^prec
Render(q, prec) ==
  LET d == PadTo(NDecimals(q), prec + 1)
  IN DigitChars(SubSeq(d, prec + 1, Len(d))) \o <<46>>
       \o DigitChars(SubSeq(d, 1, prec))

\* the fixed-point renderings of r with prec decimals
FormatFixed(r, prec) == {Render(q, prec) : q \in Roundings(r, prec)}

\* mutant: two decimals
FormatF_TwoDecimals(r) == FormatFixed(r, 2)

\* the possible values of format(r, '.3f')
FormatF(r) == FormatFixed(r, PRECISION)

(***************************************************************************)
(* Outcomes of a call: a returned value or a raised exception.             *)
(***************************************************************************)
Ok(v) == [err |-> "", val |-> v]
Raise(e) == [err |-> e]
NotCalled == [err |-> "NotCalled"]
IsOk(o) == o.err = ""

(***************************************************************************)
(* The classes.                                                            *)
(***************************************************************************)
M_IN_KM == 1000
MIN_IN_H == 60

Running_CALORIES_MEAN_SPEED_MULTIPLIER == 18
Running_CALORIES_MEAN_SPEED_SHIFT == Rat(179, 100)

SportsWalking_CALORIES_MEAN_SPEED_MULTIPLIER == Rat(35, 1000)
SportsWalking_CALORIES_MEAN_SPEED_SHIFT == Rat(29, 1000)
M_IN_SEC == Rat(278, 1000)
CM_IN_M == 100

Swimming_CALORIES_MEAN_SPEED_MULTIPLIER == Rat(11, 10)
Swimming_CALORIES_MEAN_SPEED_SHIFT == 2

Classes == {"Training", "Running", "SportsWalking", "Swimming"}

\* the dataclass fields, in the order of the generated __init__
FieldNames(cls) ==
  CASE cls = "SportsWalking" -> <<"action", "duration", "weight", "height">>
    [] cls = "Swimming" ->
         <<"action", "duration", "weight", "length_pool", "count_pool">>
    [] OTHER -> <<"action", "duration", "weight">>

\* the methods and class attributes a class body defines itself
OwnNames(cls) ==
  CASE cls = "Training" ->
         {"LEN_STEP", "get_distance", "get_mean_speed", "get_spent_calories",
          "show_training_info"}
    [] cls = "Running" -> {"get_spent_calories"}
    [] cls = "SportsWalking" -> {"get_spent_calories"}
    [] cls = "Swimming" -> {"LEN_STEP", "get_mean_speed", "get_spent_calories"}

\* attribute lookup along the method resolution order (cls, Training)
Resolve(cls, name) == IF name \in OwnNames(cls) THEN cls ELSE "Training"

Training_LEN_STEP == Rat(65, 100)
Swimming_LEN_STEP == Rat(138, 100)

\* mutant: the override of LEN_STEP in Swimming is lost
LEN_STEP_NoOverride(cls) == Training_LEN_STEP

LEN_STEP(cls) ==
  IF Resolve(cls, "LEN_STEP") = "Swimming"
  THEN Swimming_LEN_STEP
  ELSE Training_LEN_STEP

\* cls(*data): positional construction, TypeError on an arity mismatch
Construct(cls, data) ==
  IF Len(data) # Len(FieldNames(cls)) THEN Raise("TypeError")
  ELSE Ok([cls |-> cls,
           f |-> [n \in {FieldNames(cls)[k] : k \in 1..Len(data)} |->
                    data[CHOOSE k \in 1..Len(data) : FieldNames(cls)[k] = n]]])

get_distance(t) ==
  Ok(RDiv(RMul(t.f.action, LEN_STEP(t.cls)), Rat(M_IN_KM, 1)))

\* mutant: a zero duration is guarded and yields speed 0
Training_get_mean_speed_Guarded(t) ==
  IF RIsZero(t.f.duration) THEN Ok(Rat(0, 1))
  ELSE Ok(RDiv(get_distance(t).val, t.f.duration))

Training_get_mean_speed(t) ==
  IF RIsZero(t.f.duration) THEN Raise("ZeroDivisionError")
  ELSE Ok(RDiv(get_distance(t).val, t.f.duration))

Swimming_get_mean_speed(t) ==
  IF RIsZero(t.f.duration) THEN Raise("ZeroDivisionError")
  ELSE Ok(RDiv(RDiv(RMul(t.f.length_pool, t.f.count_pool), Rat(M_IN_KM, 1)),
               t.f.duration))

\* mutant: the override of get_mean_speed in Swimming is lost
get_mean_speed_NoOverride(t) == Training_get_mean_speed(t)

get_mean_speed(t) ==
  IF Resolve(t.cls, "get_mean_speed") = "Swimming"
  THEN Swimming_get_mean_speed(t)
  ELSE Training_get_mean_speed(t)

Training_get_spent_calories(t) == Raise("NotImplementedError")

\* mutant: the conversion of hours to minutes is lost
Running_get_spent_calories_NoMinutes(t) ==
  LET speed == get_mean_speed(t)
  IN IF ~IsOk(speed) THEN speed
     ELSE Ok(RMul(RDiv(RMul(RAdd(RMul(Num(Running_CALORIES_MEAN_SPEED_MULTIPLIER),
                                      speed.val),
                                 Running_CALORIES_MEAN_SPEED_SHIFT),
                            t.f.weight),
                       Rat(M_IN_KM, 1)),
                  t.f.duration))

Running_get_spent_calories(t) ==
  LET speed == get_mean_speed(t)
  IN IF ~IsOk(speed) THEN speed
     ELSE Ok(RMul(RMul(RDiv(RMul(RAdd(RMul(Num(Running_CALORIES_MEAN_SPEED_MULTIPLIER),
                                           speed.val),
                                      Running_CALORIES_MEAN_SPEED_SHIFT),
                                 t.f.weight),
                            Rat(M_IN_KM, 1)),
                       t.f.duration),
                  Rat(MIN_IN_H, 1)))

SportsWalking_get_spent_calories(t) ==
  LET speed  == get_mean_speed(t)
      meters == RDiv(t.f.height, Rat(CM_IN_M, 1))
      mps    == RMul(speed.val, M_IN_SEC)
  IN IF ~IsOk(speed) THEN speed
     ELSE IF RIsZero(meters) THEN Raise("ZeroDivisionError")
     ELSE Ok(RMul(RMul(RAdd(RMul(SportsWalking_CALORIES_MEAN_SPEED_MULTIPLIER,
                                 t.f.weight),
                            RMul(RMul(RDiv(RMul(mps, mps), meters),
                                      SportsWalking_CALORIES_MEAN_SPEED_SHIFT),
                                 t.f.weight)),
                       t.f.duration),
                  Rat(MIN_IN_H, 1)))

\* mutant: the mean speed is the one of the base class
Swimming_get_spent_calories_BaseSpeed(t) ==
  LET speed == Training_get_mean_speed(t)
  IN IF ~IsOk(speed) THEN speed
     ELSE Ok(RMul(RMul(RMul(RAdd(speed.val,
                                 Swimming_CALORIES_MEAN_SPEED_MULTIPLIER),
                            Rat(Swimming_CALORIES_MEAN_SPEED_SHIFT, 1)),
                       t.f.weight),
                  t.f.duration))

Swimming_get_spent_calories(t) ==
  LET speed == get_mean_speed(t)
  IN IF ~IsOk(speed) THEN speed
     ELSE Ok(RMul(RMul(RMul(RAdd(speed.val,
                                 Swimming_CALORIES_MEAN_SPEED_MULTIPLIER),
                            Rat(Swimming_CALORIES_MEAN_SPEED_SHIFT, 1)),
                       t.f.weight),
                  t.f.duration))

get_spent_calories(t) ==
  LET owner == Resolve(t.cls, "get_spent_calories")
  IN CASE owner = "Running" -> Running_get_spent_calories(t)
       [] owner = "SportsWalking" -> SportsWalking_get_spent_calories(t)
       [] owner = "Swimming" -> Swimming_get_spent_calories(t)
       [] OTHER -> Training_get_spent_calories(t)

\* InfoMessage(type(self).__name__, duration, distance, speed, calories);
\* the arguments are evaluated left to right and the first exception wins
show_training_info(t) ==
  LET speed    == get_mean_speed(t)
      calories == get_spent_calories(t)
  IN IF ~IsOk(speed) THEN speed
     ELSE IF ~IsOk(calories) THEN calories
     ELSE Ok([training_type |-> ClassName(t.cls),
              duration |-> t.f.duration,
              distance |-> get_distance(t).val,
              speed    |-> speed.val,
              calories |-> calories.val])

\* InfoMessage.get_message: the possible values of
\* MESSAGE.format(**asdict(self))
get_message(info) ==
  {MSG_TYPE \o info.training_type
     \o MSG_DURATION \o duration
     \o MSG_DISTANCE \o distance
     \o MSG_SPEED \o speed
     \o MSG_CALORIES \o calories
     \o MSG_END :
       duration \in FormatF(info.duration), distance \in FormatF(info.distance),
       speed \in FormatF(info.speed), calories \in FormatF(info.calories)}

\* mutant: the classes of 'RUN' and 'WLK' are exchanged
WORKOUT_TYPES_Exchanged(code) ==
  CASE code = "SWM" -> "Swimming"
    [] code = "RUN" -> "SportsWalking"
    [] code = "WLK" -> "Running"
    [] OTHER -> "KeyError"

\* mutant: 'RUN' maps to the base class
WORKOUT_TYPES_Base(code) ==
  CASE code = "SWM" -> "Swimming"
    [] code = "RUN" -> "Training"
    [] code = "WLK" -> "SportsWalking"
    [] OTHER -> "KeyError"

\* the keys of WORKOUT_TYPES and the class each maps to
WORKOUT_TYPES(code) ==
  CASE code = "SWM" -> "Swimming"
    [] code = "RUN" -> "Running"
    [] code = "WLK" -> "SportsWalking"
    [] OTHER -> "KeyError"

read_package(workout_type, data) ==
  IF WORKOUT_TYPES(workout_type) \in Classes
  THEN Construct(WORKOUT_TYPES(workout_type), data)
  ELSE Raise("ValueError")

(***************************************************************************)
(* Inputs.                                                                 *)
(***************************************************************************)
\* the longest list of packages a run is given
MaxPackages == 3
\* durations are 0, 0.5, 1, ... hours, up to MaxHalfHours half hours
MaxHalfHours == 2
\* the most direct method calls made on one object
MaxCalls == 4

\* the packages of the __main__ block
PACKAGES ==
  << [code |-> "SWM", data |-> <<Num(720), Num(1), Num(80), Num(25), Num(40)>>],
     [code |-> "RUN", data |-> <<Num(15000), Num(1), Num(75)>>],
     [code |-> "WLK", data |-> <<Num(9000), Num(1), Num(75), Num(180)>>] >>

\* what a run draws its packages from: the packages of the __main__ block,
\* a zero duration, an unknown code and a data sequence of the wrong length
RunPool ==
  {PACKAGES[k] : k \in 1..Len(PACKAGES)} \cup
  { [code |-> "RUN", data |-> <<Num(15000), Num(0), Num(75)>>],
    [code |-> "XYZ", data |-> <<Num(15000), Num(1), Num(75)>>],
    [code |-> "RUN", data |-> <<Num(9000), Num(1), Num(75), Num(180)>>] }

RECURSIVE ListsUpTo(_, _)
ListsUpTo(S, n) ==
  IF n = 0 THEN {<<>>}
  ELSE LET shorter == ListsUpTo(S, n - 1)
       IN shorter \cup {Append(l, e) : l \in {m \in shorter : Len(m) = n - 1},
                                       e \in S}

Codes == {"SWM", "RUN", "WLK", "XYZ", "swm", ""}
Actions == {Num(0), Num(720), Num(9000), Num(15000)}
Durations ==
  {IF k % 2 = 0 THEN Num(k \div 2) ELSE Rat(k, 2) : k \in 0..MaxHalfHours}
Weights == {Num(75), Num(80)}
Heights == {Num(0), Num(180)}
LengthPools == {Num(25), Num(50)}
CountPools == {Num(0), Num(40)}

DataOf3 == {<<a, d, w>> : a \in Actions, d \in Durations, w \in Weights}
DataOf4 == {t \o <<h>> : t \in DataOf3, h \in Heights}
DataOf5 ==
  {t \o <<l, c>> : t \in {u \in DataOf3 : u[1] = Num(720)},
                   l \in LengthPools, c \in CountPools}
DataOf2 == {<<a, d>> : a \in {Num(720)}, d \in Durations}

\* what a single call of read_package is given: every code with data of
\* every length
ApiPool ==
  {[code |-> c, data |-> d] :
     c \in Codes, d \in {<<>>} \cup DataOf2 \cup DataOf3 \cup DataOf4 \cup DataOf5}

(***************************************************************************)
(* State.                                                                  *)
(***************************************************************************)
VARIABLES
  packages,   \* the list of (workout_type, data) pairs of the run
  idx,        \* the position of the for loop in packages
  pc,         \* "read", "main", "done" or "error"
  training,   \* the object the loop variable training is bound to
  error,      \* the exception that ended the run, "" if none
  stdout,     \* the lines printed so far
  results,    \* what each method last returned (or raised) on training
  ncalls      \* the number of direct method calls made on training

vars == <<packages, idx, pc, training, error, stdout, results, ncalls>>

Methods ==
  {"get_distance", "get_mean_speed", "get_spent_calories", "show_training_info"}

NoTraining == [cls |-> "None"]
NoResults == [m \in Methods |-> NotCalled]

InitWith(lists) ==
  /\ packages \in lists
  /\ idx = 1
  /\ pc = "read"
  /\ training = NoTraining
  /\ error = ""
  /\ stdout = <<>>
  /\ results = NoResults
  /\ ncalls = 0

Init == InitWith(ListsUpTo(RunPool, MaxPackages))
InitApi == InitWith({<<p>> : p \in ApiPool})

(***************************************************************************)
(* The run: for workout_type, data in packages: ...                        *)
(***************************************************************************)
\* training = read_package(workout_type, data)
ReadPackage ==
  /\ pc = "read"
  /\ idx <= Len(packages)
  /\ LET o == read_package(packages[idx].code, packages[idx].data)
     IN IF IsOk(o)
        THEN /\ training' = o.val
             /\ pc' = "main"
             /\ error' = error
        ELSE /\ training' = training
             /\ pc' = "error"
             /\ error' = o.err
  /\ results' = NoResults
  /\ ncalls' = 0
  /\ UNCHANGED <<packages, idx, stdout>>

\* mutant: a failing workout is skipped and the run goes on
Main_Isolating ==
  /\ pc = "main"
  /\ LET o == show_training_info(training)
     IN IF IsOk(o)
        THEN \E line \in get_message(o.val) : stdout' = Append(stdout, line)
        ELSE stdout' = stdout
  /\ idx' = idx + 1
  /\ pc' = "read"
  /\ UNCHANGED <<packages, training, error, results, ncalls>>

\* main(training):
\* print(InfoMessage.get_message(training.show_training_info()))
Main ==
  /\ pc = "main"
  /\ LET o == show_training_info(training)
     IN IF IsOk(o)
        THEN /\ \E line \in get_message(o.val) :
                  stdout' = Append(stdout, line)
             /\ idx' = idx + 1
             /\ pc' = "read"
             /\ error' = error
        ELSE /\ stdout' = stdout
             /\ idx' = idx
             /\ pc' = "error"
             /\ error' = o.err
  /\ UNCHANGED <<packages, training, results, ncalls>>

\* the for loop is exhausted
Finish ==
  /\ pc = "read"
  /\ idx > Len(packages)
  /\ pc' = "done"
  /\ UNCHANGED <<packages, idx, training, error, stdout, results, ncalls>>

(***************************************************************************)
(* Direct calls of the methods of the constructed object.                  *)
(***************************************************************************)
Returned(m, o) ==
  /\ ncalls < MaxCalls
  /\ ncalls' = ncalls + 1
  /\ results' = [results EXCEPT ![m] = o]
  /\ pc' = IF IsOk(o) THEN pc ELSE "error"
  /\ error' = IF IsOk(o) THEN error ELSE o.err
  /\ UNCHANGED <<packages, idx, stdout>>

\* mutant: the distance is stored back into the action field
CallGetDistance_InPlace ==
  /\ pc = "main"
  /\ Returned("get_distance", get_distance(training))
  /\ training' = [training EXCEPT !.f.action = get_distance(training).val]

CallGetDistance ==
  /\ pc = "main"
  /\ Returned("get_distance", get_distance(training))
  /\ training' = training

CallGetMeanSpeed ==
  /\ pc = "main"
  /\ Returned("get_mean_speed", get_mean_speed(training))
  /\ training' = training

CallGetSpentCalories ==
  /\ pc = "main"
  /\ Returned("get_spent_calories", get_spent_calories(training))
  /\ training' = training

CallShowTrainingInfo ==
  /\ pc = "main"
  /\ Returned("show_training_info", show_training_info(training))
  /\ training' = training

Next == ReadPackage \/ Main \/ Finish

NextApi ==
  \/ ReadPackage
  \/ CallGetDistance
  \/ CallGetMeanSpeed
  \/ CallGetSpentCalories
  \/ CallShowTrainingInfo
  \/ Main
  \/ Finish

Spec == Init /\ [][Next]_vars
SpecApi == InitApi /\ [][NextApi]_vars

(***************************************************************************)
(* Vocabulary of the claims.                                               *)
(***************************************************************************)
Called(m) == results[m].err # "NotCalled"
\* read_package has been applied to the only package of the list
SingleRead == Len(packages) = 1 /\ ~(pc = "read" /\ idx = 1)

ExpectedClass(code) ==
  CASE code = "SWM" -> "Swimming"
    [] code = "RUN" -> "Running"
    [] code = "WLK" -> "SportsWalking"
    [] OTHER -> "None"

ExpectedLength(code) ==
  CASE code = "SWM" -> 5
    [] code = "RUN" -> 3
    [] code = "WLK" -> 4
    [] OTHER -> -1

WellFormed(p) ==
  ExpectedClass(p.code) # "None" /\ Len(p.data) = ExpectedLength(p.code)

\* x is within 0.001 of thousandths / 1000
Near(x, thousandths) ==
  /\ RCmp(x, Rat(thousandths - 1, 1000)) > 0
  /\ RCmp(x, Rat(thousandths + 1, 1000)) < 0

(***************************************************************************)
(* C1: read_package builds a Swimming for "SWM", a Running for "RUN" and a *)
(* SportsWalking for "WLK" when data has the expected length, and for      *)
(* every other code builds nothing and fails with ValueError, whatever     *)
(* data holds.                                                             *)
(***************************************************************************)
C1_ReadPackageDispatch ==
  SingleRead =>
    LET p == packages[1]
    IN /\ WellFormed(p) =>
            /\ training.cls = ExpectedClass(p.code)
            /\ error \notin {"ValueError", "TypeError"}
       /\ ExpectedClass(p.code) = "None" =>
            /\ training = NoTraining
            /\ pc = "error"
            /\ error = "ValueError"

\* an unknown code given the data of a swimming workout is rejected
C1_UnknownCodeRejected ==
  /\ SingleRead
  /\ packages[1].code = "swm"
  /\ Len(packages[1].data) = 5
  /\ error = "ValueError"

PairFails(p) ==
  LET o == read_package(p.code, p.data)
  IN ~IsOk(o) \/ ~IsOk(show_training_info(o.val))

LinesOf(p) ==
  get_message(show_training_info(read_package(p.code, p.data).val).val)

(***************************************************************************)
(* C2: a run writes one line per pair, in list order; when the pair at     *)
(* position i fails the run aborts: the lines of the pairs before i have   *)
(* been written and no line is ever written for pair i or a later pair.    *)
(***************************************************************************)
C2_SequentialAbort ==
  /\ Len(stdout) <= Len(packages)
  /\ \A k \in 1..Len(stdout) :
       ~PairFails(packages[k]) /\ stdout[k] \in LinesOf(packages[k])
  /\ \A k \in 1..Len(packages) : PairFails(packages[k]) => Len(stdout) < k
  /\ pc = "done" => Len(stdout) = Len(packages)
  /\ pc = "error" => PairFails(packages[Len(stdout) + 1])

\* a run aborted at its second pair, with a third pair left unprocessed
C2_AbortedInTheMiddle ==
  /\ pc = "error"
  /\ Len(stdout) = 1
  /\ Len(packages) = 3
  /\ ~PairFails(packages[3])

StepLength(cls) == IF cls = "Swimming" THEN Rat(138, 100) ELSE Rat(65, 100)

(***************************************************************************)
(* C3: get_distance() is action * step_length / 1000 with step length 0.65 *)
(* for Running and SportsWalking and 1.38 for Swimming, a function of the  *)
(* action and the variant alone.                                           *)
(***************************************************************************)
C3_Distance ==
  Called("get_distance") =>
    /\ IsOk(results["get_distance"])
    /\ REq(results["get_distance"].val,
           RDiv(RMul(training.f.action, StepLength(training.cls)), Rat(1000, 1)))

\* 720 strokes are 0.9936 km
C3_SwimmingDistance ==
  /\ training.cls = "Swimming"
  /\ IsOk(results["get_distance"])
  /\ REq(results["get_distance"].val, Rat(9936, 10000))

PoolSpeed(t) ==
  RDiv(RDiv(RMul(t.f.length_pool, t.f.count_pool), Rat(1000, 1)), t.f.duration)

(***************************************************************************)
(* C4: with duration > 0, get_mean_speed() is get_distance() / duration    *)
(* for Running and SportsWalking, and for Swimming it is                   *)
(* (length_pool * count_pool / 1000) / duration, whatever the action.      *)
(***************************************************************************)
C4_MeanSpeed ==
  (Called("get_mean_speed") /\ ~RIsZero(training.f.duration)) =>
    /\ IsOk(results["get_mean_speed"])
    /\ REq(results["get_mean_speed"].val,
           IF training.cls = "Swimming" THEN PoolSpeed(training)
           ELSE RDiv(get_distance(training).val, training.f.duration))

\* 40 lengths of 25 m in an hour are 1 km/h, though 720 strokes are 0.9936 km
C4_SwimmingSpeed ==
  /\ training.cls = "Swimming"
  /\ REq(training.f.action, Rat(720, 1))
  /\ REq(training.f.duration, Rat(1, 1))
  /\ IsOk(results["get_mean_speed"])
  /\ REq(results["get_mean_speed"].val, Rat(1, 1))

RunningSample ==
  /\ training.cls = "Running"
  /\ REq(training.f.action, Rat(15000, 1))
  /\ REq(training.f.duration, Rat(1, 1))
  /\ REq(training.f.weight, Rat(75, 1))

RunningFormula(speed, weight, duration) ==
  RMul(RMul(RDiv(RMul(RAdd(RMul(Rat(18, 1), speed), Rat(179, 100)), weight),
                 Rat(1000, 1)),
            duration),
       Rat(60, 1))

RunningSampleGives(thousandths) ==
  RunningSample =>
    /\ Called("get_distance") =>
         REq(results["get_distance"].val, Rat(975, 100))
    /\ Called("get_mean_speed") =>
         /\ IsOk(results["get_mean_speed"])
         /\ REq(results["get_mean_speed"].val, Rat(975, 100))
    /\ Called("get_spent_calories") =>
         /\ IsOk(results["get_spent_calories"])
         /\ REq(results["get_spent_calories"].val,
                RunningFormula(Rat(975, 100), Rat(75, 1), Rat(1, 1)))
         /\ Near(results["get_spent_calories"].val, thousandths)

(***************************************************************************)
(* C5: for Running with action=15000, duration=1, weight=75 the distance   *)
(* is 9.75 km, the mean speed 9.75 km/h and the calories,                  *)
(* (18 * mean_speed + 1.79) * weight / 1000 * duration * 60, are           *)
(* approximately 797.805 (the claim as made says 791.235).                 *)
(***************************************************************************)
C5_RunningSample == RunningSampleGives(797805)

\* the claim as made: the calories are approximately 791.235
C5_AsClaimed == RunningSampleGives(791235)

\* the three metrics of the sample have been computed
C5_SampleComputed ==
  /\ RunningSample
  /\ IsOk(results["get_distance"])
  /\ IsOk(results["get_mean_speed"])
  /\ IsOk(results["get_spent_calories"])

SwimmingSample ==
  /\ training.cls = "Swimming"
  /\ REq(training.f.action, Rat(720, 1))
  /\ REq(training.f.duration, Rat(1, 1))
  /\ REq(training.f.weight, Rat(80, 1))
  /\ REq(training.f.length_pool, Rat(25, 1))
  /\ REq(training.f.count_pool, Rat(40, 1))

(***************************************************************************)
(* C6: for Swimming with duration > 0, get_spent_calories() is             *)
(* (mean_speed + 1.1) * 2 * weight * duration with the mean speed of the   *)
(* Swimming override; action=720, duration=1, weight=80, length_pool=25,   *)
(* count_pool=40 gives mean speed 1.0 km/h and 336.0 calories.             *)
(***************************************************************************)
C6_SwimmingCalories ==
  (training.cls = "Swimming" /\ ~RIsZero(training.f.duration)) =>
    /\ Called("get_spent_calories") =>
         /\ IsOk(results["get_spent_calories"])
         /\ REq(results["get_spent_calories"].val,
                RMul(RMul(RMul(RAdd(PoolSpeed(training), Rat(11, 10)),
                               Rat(2, 1)),
                          training.f.weight),
                     training.f.duration))
    /\ SwimmingSample =>
         /\ Called("get_mean_speed") =>
              REq(results["get_mean_speed"].val, Rat(1, 1))
         /\ Called("get_spent_calories") =>
              REq(results["get_spent_calories"].val, Rat(336, 1))

\* speed and calories of the sample have been computed
C6_SampleComputed ==
  /\ SwimmingSample
  /\ IsOk(results["get_mean_speed"])
  /\ IsOk(results["get_spent_calories"])

OwnCalories(t) ==
  CASE t.cls = "Running" -> Running_get_spent_calories(t)
    [] t.cls = "SportsWalking" -> SportsWalking_get_spent_calories(t)
    [] t.cls = "Swimming" -> Swimming_get_spent_calories(t)

(***************************************************************************)
(* C7: the base get_spent_calories() is never invoked on a workout built   *)
(* by read_package: show_training_info() reaches the calorie formula of    *)
(* the variant and NotImplementedError is never raised.                    *)
(***************************************************************************)
C7_NeverUnimplemented ==
  /\ error # "NotImplementedError"
  /\ \A m \in Methods : results[m].err # "NotImplementedError"
  /\ training # NoTraining =>
       /\ training.cls \in {"Running", "SportsWalking", "Swimming"}
       /\ IsOk(results["show_training_info"]) =>
            REq(results["show_training_info"].val.calories,
                OwnCalories(training).val)

\* show_training_info() has returned for a workout of code "RUN"
C7_RunningInfoShown ==
  /\ SingleRead
  /\ packages[1].code = "RUN"
  /\ IsOk(results["show_training_info"])

(***************************************************************************)
(* C8: no call of get_distance(), get_mean_speed(), get_spent_calories()   *)
(* or show_training_info(), nor main(), changes a field of the record, and *)
(* a call repeated on the same record returns what it returned before.     *)
(***************************************************************************)
C8_NeverMutated ==
  [][pc = "main" =>
       /\ training' = training
       /\ \A m \in Methods : Called(m) => results'[m] = results[m]]_vars

\* a second call has been made and only one method has been called so far
C8_CallRepeated ==
  /\ pc = "main"
  /\ ncalls = 2
  /\ Called("get_spent_calories")
  /\ \A m \in Methods \ {"get_spent_calories"} : ~Called(m)

(***************************************************************************)
(* C9: for each variant a workout with duration 0 is constructed without   *)
(* error; the division by zero surfaces when the mean speed is computed:   *)
(* show_training_info() fails with ZeroDivisionError, which ends the run,  *)
(* and no line is printed for that workout.                                *)
(***************************************************************************)
C9_ZeroDuration ==
  (SingleRead /\ WellFormed(packages[1]) /\ RIsZero(packages[1].data[2])) =>
    /\ training.cls = ExpectedClass(packages[1].code)
    /\ stdout = <<>>
    /\ pc \in {"main", "error"}
    /\ error \in {"", "ZeroDivisionError"}
    /\ pc = "error" <=> error = "ZeroDivisionError"
    /\ results["get_distance"].err \in {"NotCalled", ""}
    /\ \A m \in Methods \ {"get_distance"} :
         results[m].err \in {"NotCalled", "ZeroDivisionError"}

\* show_training_info() has failed on a swimming workout of duration 0 whose
\* distance had been computed
C9_SwimmingZeroDuration ==
  /\ training.cls = "Swimming"
  /\ RIsZero(training.f.duration)
  /\ IsOk(results["get_distance"])
  /\ results["show_training_info"].err = "ZeroDivisionError"
  /\ pc = "error"
  /\ stdout = <<>>

Unparsed == <<-1>>

StripPrefix(s, lit) ==
  IF Len(s) >= Len(lit) /\ SubSeq(s, 1, Len(lit)) = lit
  THEN SubSeq(s, Len(lit) + 1, Len(s))
  ELSE Unparsed

\* the length of the longest prefix of s made of the characters '0'..'9'
RECURSIVE DigitRun(_)
DigitRun(s) ==
  IF s # <<>> /\ s[1] \in 48..57 THEN 1 + DigitRun(Tail(s)) ELSE 0

\* the natural a string of digits denotes
RECURSIVE NumberOf(_)
NumberOf(s) ==
  IF s = <<>> THEN <<>>
  ELSE NAdd(NMulInt(NumberOf(SubSeq(s, 1, Len(s) - 1)), 10),
            NatToLimbs(s[Len(s)] - 48))

\* digits, '.', digits at the head of s, and what follows them
ParseFixed(s) ==
  LET n    == DigitRun(s)
      tl   == SubSeq(s, n + 1, Len(s))
      m    == DigitRun(Tail(tl))
  IN IF n = 0 \/ tl = <<>> \/ tl[1] # 46
     THEN [ok |-> FALSE, rest |-> Unparsed]
     ELSE [ok |-> TRUE, int |-> SubSeq(s, 1, n), frac |-> SubSeq(tl, 2, m + 1),
           rest |-> SubSeq(tl, m + 2, Len(tl))]

\* the field has exactly 3 decimals and is the value rounded to them
FieldShows(field, value) ==
  /\ field.ok
  /\ Len(field.frac) = 3
  /\ LET shown == RNorm([num |-> NumberOf(field.int \o field.frac),
                         den |-> NatToLimbs(1000)])
     IN /\ RCmp(value, RAdd(shown, Rat(1, 2000))) <= 0
        /\ RCmp(RAdd(value, Rat(1, 2000)), shown) >= 0

LineFollows(line, lits, label, values) ==
  LET f1 == ParseFixed(StripPrefix(StripPrefix(StripPrefix(line, lits[1]),
                                               label), lits[2]))
      f2 == ParseFixed(StripPrefix(f1.rest, lits[3]))
      f3 == ParseFixed(StripPrefix(f2.rest, lits[4]))
      f4 == ParseFixed(StripPrefix(f3.rest, lits[5]))
  IN /\ FieldShows(f1, values[1])
     /\ FieldShows(f2, values[2])
     /\ FieldShows(f3, values[3])
     /\ FieldShows(f4, values[4])
     /\ f4.rest = lits[6]

LinesFollow(lits) ==
  \A k \in 1..Len(stdout) :
    LET t == read_package(packages[k].code, packages[k].data).val
    IN LineFollows(stdout[k], lits,
                   ClassName(ExpectedClass(packages[k].code)),
                   <<t.f.duration, get_distance(t).val, get_mean_speed(t).val,
                     get_spent_calories(t).val>>)

\* 'Workout type: ', '; Duration: ', ' h; Distance: ', ' km; Avg speed: ',
\* ' km/h; Calories: ', '.'
EnglishTemplate ==
  << <<87, 111, 114, 107, 111, 117, 116, 32, 116, 121, 112, 101, 58, 32>>,
     <<59, 32, 68, 117, 114, 97, 116, 105, 111, 110, 58, 32>>,
     <<32, 104, 59, 32, 68, 105, 115, 116, 97, 110, 99, 101, 58, 32>>,
     <<32, 107, 109, 59, 32, 65, 118, 103, 32, 115, 112, 101, 101, 100, 58,
       32>>,
     <<32, 107, 109, 47, 104, 59, 32, 67, 97, 108, 111, 114, 105, 101, 115,
       58, 32>>,
     <<46>> >>

\* 'Тип тренировки: ', '; Длительность: ', ' ч.; Дистанция: ',
\* ' км; Ср. скорость: ', ' км/ч; Потрачено ккал: ', '.'
RussianTemplate ==
  << <<1058, 1080, 1087, 32, 1090, 1088, 1077, 1085, 1080, 1088, 1086, 1074,
       1082, 1080, 58, 32>>,
     <<59, 32, 1044, 1083, 1080, 1090, 1077, 1083, 1100, 1085, 1086, 1089,
       1090, 1100, 58, 32>>,
     <<32, 1095, 46, 59, 32, 1044, 1080, 1089, 1090, 1072, 1085, 1094, 1080,
       1103, 58, 32>>,
     <<32, 1082, 1084, 59, 32, 1057, 1088, 46, 32, 1089, 1082, 1086, 1088,
       1086, 1089, 1090, 1100, 58, 32>>,
     <<32, 1082, 1084, 47, 1095, 59, 32, 1055, 1086, 1090, 1088, 1072, 1095,
       1077, 1085, 1086, 32, 1082, 1082, 1072, 1083, 58, 32>>,
     <<46>> >>

(***************************************************************************)
(* C10: every printed line is the template with the class name first and   *)
(* then duration, get_distance(), get_mean_speed(), get_spent_calories()   *)
(* in this order, each in fixed point with exactly 3 decimals; the literal *)
(* text of the template is the Russian one of InfoMessage.MESSAGE (the     *)
(* claim as made gives an English one).                                    *)
(***************************************************************************)
C10_ReportLine == LinesFollow(RussianTemplate)

\* the claim as made: the literal text is the English template
C10_AsClaimed == LinesFollow(EnglishTemplate)

\* the line of a walking workout of 9000 steps has been printed
C10_WalkingLinePrinted ==
  /\ Len(stdout) = 1
  /\ training.cls = "SportsWalking"
  /\ REq(training.f.action, Rat(9000, 1))
  /\ REq(training.f.height, Rat(180, 1))
====
